---- MODULE Spec2Model ----
(***************************************************************************)
(* A model of the Set / SetOfImages family of pwem/data.py, of the Spider  *)
(* location conversion of pwem/packages/spider/convert.py, of the import   *)
(* and CTF protocols of pwem/protocol.py and of ProtFrealign of            *)
(* pwem/packages/brandeis/protocol_frealign.py.                            *)
(*                                                                         *)
(* A Set is a Python object with the fields _filename, _mapper, _idCount,  *)
(* _size and _idMap.  Its mapper is a connection to an sqlite file: the    *)
(* rows it shows are the rows of the file when it was opened followed by   *)
(* the rows inserted through it; commit() makes them the file's rows.      *)
(* Python's None is modelled by NoneId (an Integer() holding no value),    *)
(* NoFile (a String() holding no value) and NoMapper.                      *)
(***************************************************************************)
EXTENDS Integers, Sequences, FiniteSets, TLC

VARIABLES
    filename,      \* Set._filename
    mapper,        \* Set._mapper: [open, rows]
    idCount,       \* Set._idCount
    size,          \* Set._size
    idMap,         \* Set._idMap: id -> item
    disk,          \* the committed rows of the sqlite file
    loadCount,     \* how many times a SqliteMapper was created for the Set
    log,           \* the append calls made so far: [given, assigned, ok]
    lastOp,        \* the name of the last operation called
    arg,           \* its integer argument (an id), or NoneId
    micArg,        \* its micrograph argument, or NoMic
    ret,           \* what it returned: [exc, items, n, str]
    coordsPointer,       \* SetOfParticles._coordsPointer
    micrographsPointer,  \* SetOfCoordinates._micrographsPointer
    passed,        \* the sets last passed to setCoordinates and setMicrographs
    sets,          \* two sets of images: name -> the fields of the object
    infoCall,      \* the last call on one of them: [op, dst, src, val, exc, n]
    spider,        \* the last Spider conversion: [op, index, filename, str, loc]
    files,         \* the file system: the paths that exist
    protocol,      \* the fields of a protocol object
    protCall       \* the last call on the protocol: its arguments and result

setVars == <<filename, mapper, idCount, size, idMap, disk, loadCount, log>>
callVars == <<lastOp, arg, micArg, ret>>
ptrVars == <<coordsPointer, micrographsPointer, passed>>
\* what the operations of a plain Set leave alone
\* the variables of the other objects of the model
protVars == <<files, protocol, protCall>>
otherVars == <<sets, infoCall, spider, protVars>>
outsideSet == <<ptrVars, otherVars>>
vars == <<filename, mapper, idCount, size, idMap, disk, loadCount, log,
          lastOp, arg, micArg, ret, coordsPointer, micrographsPointer, passed,
          sets, infoCall, spider, files, protocol, protCall>>

----------------------------------------------------------------------------
(* Bounds of the model *)

MaxAppends == 3
MaxLoads == 2
MaxDisk == 1
MaxId == 2
MaxCoords == 2

----------------------------------------------------------------------------
(* Python values *)

\* Integer() with no value: Item._id before setId, hasId() is false
NoneId == 0 - 1

\* String() with no value: Set._filename before setFileName
NoFile == "None"

\* self._mapper = None
NoMapper == [open |-> FALSE, rows |-> <<>>]

FileNames == {"set.sqlite"}

\* the ids a caller gives an item before appending it
Ids == 1..MaxId

\* Item(): an element of a Set; tag stands for the rest of its content
Item(id, tag) == [id |-> id, tag |-> tag]

hasId(item) == item.id # NoneId

\* a Pointer() holding no object, and micrograph=None
NoObject == "None"
NoMic == [name |-> NoObject, id |-> NoneId]

\* the micrographs a coordinate may be given: two of a set, with the ids 1
\* and 2, and one that was never appended to a set and has no id
Micrographs == {[name |-> "micA", id |-> 1], [name |-> "micB", id |-> 2],
                [name |-> "micNew", id |-> NoneId]}

\* Coordinate(): an Item with a micrograph pointer and a micrograph id
Coordinate(id, tag) == [id |-> id, tag |-> tag, micId |-> NoneId, mic |-> NoObject]

\* Coordinate.setMicrograph
setMicrograph(c, m) == [c EXCEPT !.mic = m.name, !.micId = m.id]

\* Coordinate.getMicId
getMicId(c) == c.micId

\* what mapper.insert stores of an item: _micrographPointer is created with
\* objDoStore=False
Stored(item) ==
    IF "mic" \in DOMAIN item THEN [item EXCEPT !.mic = NoObject] ELSE item

NoExc == "ok"
FilenameExc == "Set filename before calling load()"
NoneTypeExc == "AttributeError: 'NoneType' object"

\* a returned value: exc is the exception raised (NoExc: none), items the item
\* or items returned (<<>>: None), n a returned number, str a returned string
Ret(exc, items, n, str) == [exc |-> exc, items |-> items, n |-> n, str |-> str]
RetNone == Ret(NoExc, <<>>, 0, "")
Raised(exc) == Ret(exc, <<>>, 0, "")

----------------------------------------------------------------------------
(* The Set object, as a record of its fields; raised is the exception a    *)
(* method ended with.                                                      *)

Self == [filename |-> filename, mapper |-> mapper, idCount |-> idCount,
         size |-> size, idMap |-> idMap, loads |-> loadCount, raised |-> NoExc]

\* Set.__init__
NewSet == [filename |-> NoFile, mapper |-> NoMapper, idCount |-> 0,
           size |-> 0, idMap |-> <<>>, loads |-> 0, raised |-> NoExc]

\* self._idMap[item.getId()] = item
Put(m, item) == [i \in DOMAIN m \cup {item.id} |-> IF i = item.id THEN item ELSE m[i]]

\* the loop of Set.load over the rows: a later row replaces an earlier one of
\* the same id
RECURSIVE FillIdMap(_, _)
FillIdMap(m, rows) ==
    IF rows = <<>> THEN m ELSE FillIdMap(Put(m, Head(rows)), Tail(rows))

\* load without its check of the filename
loadUnchecked(s) ==
    [s EXCEPT !.mapper = [open |-> TRUE, rows |-> disk],
              !.idMap = FillIdMap(<<>>, disk),
              !.size = Len(disk),
              !.loads = @ + 1]

\* Set.load
load(s) ==
    IF s.filename = NoFile
    THEN [s EXCEPT !.raised = FilenameExc]
    ELSE [s EXCEPT !.mapper = [open |-> TRUE, rows |-> disk],
                   !.idMap = FillIdMap(<<>>, disk),
                   !.size = Len(disk),
                   !.loads = @ + 1]

\* loadIfEmpty without its test of the mapper
loadAlways(s) == load(s)

\* Set.loadIfEmpty
loadIfEmpty(s) == IF s.mapper = NoMapper THEN load(s) ELSE s

\* append taking the new id from the size of the set, not from _idCount
appendIdFromSize(s, item) ==
    LET s1 == loadIfEmpty(s)
        it == IF hasId(item) THEN item ELSE [item EXCEPT !.id = s1.size + 1]
    IN  IF s1.raised # NoExc
        THEN [set |-> s1, item |-> it]
        ELSE [set |-> [s1 EXCEPT !.mapper.rows = Append(@, Stored(it)),
                                 !.size = @ + 1,
                                 !.idMap = Put(@, it)],
              item |-> it]

\* append without its update of the cached size
appendNoSize(s, item) ==
    LET cnt == IF hasId(item) THEN s.idCount ELSE s.idCount + 1
        it == IF hasId(item) THEN item ELSE [item EXCEPT !.id = cnt]
        s1 == loadIfEmpty([s EXCEPT !.idCount = cnt])
    IN  IF s1.raised # NoExc
        THEN [set |-> s1, item |-> it]
        ELSE [set |-> [s1 EXCEPT !.mapper.rows = Append(@, Stored(it)),
                                 !.idMap = Put(@, it)],
              item |-> it]

\* Set.append: the set after the call and the item, whose id it may have set
append(s, item) ==
    LET cnt == IF hasId(item) THEN s.idCount ELSE s.idCount + 1
        it == IF hasId(item) THEN item ELSE [item EXCEPT !.id = cnt]
        s1 == loadIfEmpty([s EXCEPT !.idCount = cnt])
    IN  IF s1.raised # NoExc
        THEN [set |-> s1, item |-> it]
        ELSE [set |-> [s1 EXCEPT !.mapper.rows = Append(@, Stored(it)),
                                 !.size = @ + 1,
                                 !.idMap = Put(@, it)],
              item |-> it]

\* __getitem__ without its loadIfEmpty
getitemNoLoad(s, imgId) ==
    [set |-> s,
     ret |-> IF imgId \in DOMAIN s.idMap
             THEN Ret(NoExc, <<s.idMap[imgId]>>, 0, "")
             ELSE RetNone]

\* Set.__getitem__
getitem(s, imgId) ==
    LET s1 == loadIfEmpty(s)
    IN  [set |-> s1,
         ret |-> IF s1.raised # NoExc THEN Raised(s1.raised)
                 ELSE IF imgId \in DOMAIN s1.idMap
                      THEN Ret(NoExc, <<s1.idMap[imgId]>>, 0, "")
                      ELSE RetNone]

\* Set.__iter__
iter(s) ==
    LET s1 == loadIfEmpty(s)
    IN  [set |-> s1,
         ret |-> IF s1.raised # NoExc THEN Raised(s1.raised)
                 ELSE Ret(NoExc, s1.mapper.rows, 0, "")]

\* Set.getFirstItem
getFirstItem(s) ==
    LET s1 == loadIfEmpty(s)
    IN  [set |-> s1,
         ret |-> IF s1.raised # NoExc THEN Raised(s1.raised)
                 ELSE IF s1.mapper.rows = <<>> THEN RetNone
                      ELSE Ret(NoExc, <<Head(s1.mapper.rows)>>, 0, "")]

\* Set.__str__: "ClassName (n items)"
str(s) ==
    LET s1 == loadIfEmpty(s)
    IN  [set |-> s1,
         ret |-> IF s1.raised # NoExc THEN Raised(s1.raised)
                 ELSE Ret(NoExc, <<>>, s1.size, "items")]

\* Set.getSize
getSize(s) == s.size

\* Set.getFileName
getFileName(s) == s.filename

\* Set.setFileName
setFileName(s, f) == [s EXCEPT !.filename = f]

\* the fields of the Set after a method
Store(s) ==
    /\ filename' = s.filename
    /\ mapper' = s.mapper
    /\ idCount' = s.idCount
    /\ size' = s.size
    /\ idMap' = s.idMap
    /\ loadCount' = s.loads

Called(op, a, r) ==
    /\ lastOp' = op
    /\ arg' = a
    /\ micArg' = NoMic
    /\ ret' = r

CalledMic(op, m, r) ==
    /\ lastOp' = op
    /\ arg' = NoneId
    /\ micArg' = m
    /\ ret' = r

\* no protocol and no file
ProtocolIdle ==
    /\ files = {}
    /\ protocol = <<>>
    /\ protCall = <<>>

\* the objects a specification does not use, as their constructors leave them
OthersIdle ==
    /\ sets = [x \in {"a", "b"} |-> <<>>]
    /\ infoCall = <<>>
    /\ spider = <<>>
    /\ ProtocolIdle

----------------------------------------------------------------------------
(* The operations on one Set *)

FileItem(k) == Item(k, 100 + k)

\* the files a Set may be given: written by an earlier Set, ids 1..n
InitialDisks == {[k \in 1..n |-> FileItem(k)] : n \in 0..MaxDisk}

InitSet ==
    /\ filename = NewSet.filename
    /\ mapper = NewSet.mapper
    /\ idCount = NewSet.idCount
    /\ size = NewSet.size
    /\ idMap = NewSet.idMap
    /\ loadCount = 0
    /\ disk \in InitialDisks
    /\ log = <<>>
    /\ lastOp = "init"
    /\ arg = NoneId
    /\ micArg = NoMic
    /\ ret = RetNone
    /\ coordsPointer = NoObject
    /\ micrographsPointer = NoObject
    /\ passed = [coords |-> NoObject, mics |-> NoObject]
    /\ OthersIdle

SetFileName(f) ==
    /\ Store(setFileName(Self, f))
    /\ Called("setFileName", NoneId, RetNone)
    /\ UNCHANGED <<disk, log, outsideSet>>

GetFileName ==
    /\ Called("getFileName", NoneId, Ret(NoExc, <<>>, 0, getFileName(Self)))
    /\ UNCHANGED <<setVars, outsideSet>>

GetSize ==
    /\ Called("getSize", NoneId, Ret(NoExc, <<>>, getSize(Self), ""))
    /\ UNCHANGED <<setVars, outsideSet>>

Load ==
    /\ loadCount < MaxLoads
    /\ LET s == load(Self)
       IN  /\ Store(s)
           /\ Called("load", NoneId, Raised(s.raised))
    /\ UNCHANGED <<disk, log, outsideSet>>

GetItem(imgId) ==
    /\ LET r == getitem(Self, imgId)
       IN  /\ Store(r.set)
           /\ Called("getitem", imgId, r.ret)
    /\ UNCHANGED <<disk, log, outsideSet>>

Iter ==
    /\ LET r == iter(Self)
       IN  /\ Store(r.set)
           /\ Called("iter", NoneId, r.ret)
    /\ UNCHANGED <<disk, log, outsideSet>>

GetFirstItem ==
    /\ LET r == getFirstItem(Self)
       IN  /\ Store(r.set)
           /\ Called("getFirstItem", NoneId, r.ret)
    /\ UNCHANGED <<disk, log, outsideSet>>

Str ==
    /\ LET r == str(Self)
       IN  /\ Store(r.set)
           /\ Called("str", NoneId, r.ret)
    /\ UNCHANGED <<disk, log, outsideSet>>

\* append(item) of a new item, with the id the caller gave it (or none)
AppendItem(given) ==
    /\ Len(log) < MaxAppends
    /\ LET r == append(Self, Item(given, Len(log) + 1))
       IN  /\ Store(r.set)
           /\ Called("append", given,
                     IF r.set.raised # NoExc THEN Raised(r.set.raised)
                     ELSE Ret(NoExc, <<r.item>>, 0, ""))
           /\ log' = Append(log, [given |-> given, assigned |-> r.item.id,
                                  ok |-> r.set.raised = NoExc])
    /\ UNCHANGED <<disk, outsideSet>>

\* Set.write: self._mapper.commit()
Write ==
    /\ IF mapper = NoMapper
       THEN /\ Called("write", NoneId, Raised(NoneTypeExc))
            /\ UNCHANGED disk
       ELSE /\ Called("write", NoneId, RetNone)
            /\ disk' = mapper.rows
    /\ UNCHANGED <<filename, mapper, idCount, size, idMap, loadCount, log, outsideSet>>

NextSet ==
    \/ \E f \in FileNames : SetFileName(f)
    \/ GetFileName
    \/ GetSize
    \/ Load
    \/ \E i \in Ids : GetItem(i)
    \/ Iter
    \/ GetFirstItem
    \/ Str
    \/ \E g \in Ids \cup {NoneId} : AppendItem(g)
    \/ Write

----------------------------------------------------------------------------
(* The claims about one Set *)

\* the items the Set holds: the rows of its mapper
Rows == mapper.rows

\* the last row of the given id, as a sequence of at most one item
LastWithId(rows, id) ==
    LET ks == {k \in DOMAIN rows : rows[k].id = id}
    IN  IF ks = {} THEN <<>>
        ELSE <<rows[CHOOSE k \in ks : \A j \in ks : j <= k]>>

LazyOps == {"getitem", "iter", "getFirstItem", "append", "str"}
NonLoadingOps == {"setFileName", "getFileName", "getSize"}

\* C1: after any sequence of load and append calls no two items held by the
\* set have the same id.
C1_UniqueIds ==
    \A i, j \in DOMAIN Rows : i # j => Rows[i].id # Rows[j].id

\* the number of id-less append calls among the first i
IdlessUpTo(i) == Cardinality({j \in 1..i : log[j].given = NoneId})

\* C2: the k-th append call of an id-less item assigns it the id k, an item
\* appended with an id keeps it, and the set holds each appended item under
\* the id the call left it with.
C2_IdsInOrder ==
    /\ \A i \in DOMAIN log :
          IF log[i].given = NoneId
          THEN log[i].assigned = IdlessUpTo(i)
          ELSE log[i].assigned = log[i].given
    /\ \A k \in DOMAIN Rows :
          Rows[k].tag \in DOMAIN log => Rows[k].id = log[Rows[k].tag].assigned

\* C2's case: a new Set on an empty file after an id-less append, an append of
\* an item with an id and a second id-less append, all three held by the set.
C2_Witness ==
    /\ Len(log) = 3
    /\ log[1].given = NoneId /\ log[2].given # NoneId /\ log[3].given = NoneId
    /\ \A i \in DOMAIN log : log[i].ok
    /\ Len(Rows) = 3
    /\ log[3].assigned = 2

\* C3 as amended: right after a successful append(item), set[item.getId()] is
\* that item; a __getitem__ call on a Set with a filename or a mapper raises
\* nothing and returns the item last stored under the id, None when the set
\* holds no item of that id; on a Set with neither it raises.
C3_GetItem ==
    /\ lastOp = "append" /\ ret.exc = NoExc =>
          getitem(Self, ret.items[1].id).ret = Ret(NoExc, ret.items, 0, "")
    /\ lastOp = "getitem" /\ mapper.open =>
          ret = Ret(NoExc, LastWithId(Rows, arg), 0, "")
    /\ lastOp = "getitem" /\ ~mapper.open =>
          filename = NoFile /\ ret = Raised(FilenameExc)

\* C3 as stated: after append(item), set[item.getId()] is that item, and for
\* an id that no item of the set has __getitem__ returns None without raising.
C3_Original ==
    /\ lastOp = "append" /\ ret.exc = NoExc =>
          getitem(Self, ret.items[1].id).ret = Ret(NoExc, ret.items, 0, "")
    /\ lastOp = "getitem" /\ LastWithId(Rows, arg) = <<>> => ret = RetNone

\* C3's case: __getitem__ returned an item that was appended after another
\* append, and that item is the last row of its id.
C3_Witness ==
    /\ lastOp = "getitem"
    /\ Len(log) >= 2
    /\ ret.items # <<>>
    /\ ret.items[1].tag = Len(log)

\* what one step does to the size, with the size a successful append adds one
\* to given as base
SizeSteps(base) ==
    /\ lastOp' = "load" /\ ret'.exc = NoExc => size' = Len(disk)
    /\ lastOp' = "append" /\ ret'.exc = NoExc => size' = base + 1

LazyLoadsOnce == loadCount' = loadCount + 1 /\ mapper'.open

\* what a step does to the mapper, for the operations C5 names
LazySteps(firstCall) ==
    /\ lastOp' \in NonLoadingOps => loadCount' = loadCount /\ mapper' = mapper
    /\ lastOp' \in LazyOps /\ mapper = NoMapper => firstCall
    /\ lastOp' \in LazyOps /\ mapper # NoMapper =>
          loadCount' = loadCount /\ mapper'.open

\* C5 as amended: a new Set has no mapper; setFileName, getFileName and
\* getSize never create one; the first call of a lazy operation on a Set with
\* no mapper and a filename loads it exactly once, on a Set with no mapper and
\* no filename it raises and loads nothing; a lazy operation on a Set with a
\* mapper never loads it again.
C5_Lazy ==
    /\ mapper = NoMapper /\ loadCount = 0
    /\ [][LazySteps(IF filename # NoFile
                    THEN LazyLoadsOnce
                    ELSE /\ loadCount' = loadCount
                         /\ mapper' = NoMapper
                         /\ ret' = Raised(FilenameExc))]_vars

\* C5 as stated: the first call of a lazy operation on a Set whose mapper is
\* not yet created loads it exactly once.
C5_Original ==
    /\ mapper = NoMapper /\ loadCount = 0
    /\ [][LazySteps(LazyLoadsOnce)]_vars

\* C5's case: a __getitem__ call on a Set that an earlier append loaded, the
\* Set still loaded exactly once.
C5_Witness ==
    /\ lastOp = "getitem"
    /\ \E i \in DOMAIN log : log[i].ok
    /\ loadCount = 1
    /\ mapper.open

\* C6: load() on a Set whose filename has not been set raises 'Set filename
\* before calling load()' and creates no mapper; the mapper stays None and
\* the size and the id map are unchanged.
C6_LoadNoFilename ==
    [][lastOp' = "load" /\ filename = NoFile =>
          /\ ret' = Raised(FilenameExc)
          /\ mapper = NoMapper /\ mapper' = NoMapper
          /\ size' = size /\ idMap' = idMap /\ loadCount' = loadCount]_vars

\* C6's case: load() was called on a Set with no filename.
C6_Witness ==
    lastOp = "load" /\ filename = NoFile /\ ret.exc = FilenameExc


----------------------------------------------------------------------------
(* SetOfCoordinates and SetOfParticles: the relations between sets.  The    *)
(* Set of the variables above is here a SetOfCoordinates, its items are     *)
(* Coordinates.                                                             *)

\* the sets a pointer may be given
CoordinateSets == {"coordsA", "coordsB"}
MicrographSets == {"micsA", "micsB"}

\* SetOfParticles.setCoordinates: the new value of _coordsPointer
setCoordinates(pointer, coordinates) == coordinates

\* SetOfParticles.getCoordinates
getCoordinates(pointer) == pointer

\* SetOfCoordinates.setMicrographs: the new value of _micrographsPointer
setMicrographs(pointer, micrographs) == micrographs

\* SetOfCoordinates.getMicrographs
getMicrographs(pointer) == pointer

\* the loop of iterCoordinates over the items that iterating the set yields
RECURSIVE yieldCoordinates(_, _)
yieldCoordinates(coords, micrograph) ==
    IF coords = <<>> THEN <<>>
    ELSE LET coord == Head(coords)
             rest == yieldCoordinates(Tail(coords), micrograph)
         IN  IF micrograph = NoMic THEN <<coord>> \o rest
             ELSE IF getMicId(coord) = micrograph.id THEN <<coord>> \o rest
                  ELSE rest

\* iterCoordinates comparing the micrograph's id with the coordinate's own id
iterCoordinatesById(s, micrograph) ==
    LET r == iter(loadIfEmpty(s))
    IN  IF r.ret.exc # NoExc THEN r
        ELSE [set |-> r.set,
              ret |-> Ret(NoExc,
                          SelectSeq(r.ret.items,
                                    LAMBDA c : micrograph = NoMic \/ c.id = micrograph.id),
                          0, "")]

\* SetOfCoordinates.iterCoordinates
iterCoordinates(s, micrograph) ==
    LET s1 == loadIfEmpty(s)
        r == IF s1.raised # NoExc THEN [set |-> s1, ret |-> Raised(s1.raised)]
             ELSE iter(s1)
    IN  IF r.ret.exc # NoExc THEN r
        ELSE [set |-> r.set,
              ret |-> Ret(NoExc, yieldCoordinates(r.ret.items, micrograph), 0, "")]

FileCoordinate(k) == setMicrograph(Coordinate(k, 100 + k), [name |-> NoObject, id |-> k])

\* the files a SetOfCoordinates may be given: the k-th coordinate has the id
\* k and the micrograph id k
InitialCoordinateDisks == {[k \in 1..n |-> FileCoordinate(k)] : n \in 0..MaxDisk}

InitCoord ==
    /\ filename = NewSet.filename
    /\ mapper = NewSet.mapper
    /\ idCount = NewSet.idCount
    /\ size = NewSet.size
    /\ idMap = NewSet.idMap
    /\ loadCount = 0
    /\ disk \in InitialCoordinateDisks
    /\ log = <<>>
    /\ lastOp = "init"
    /\ arg = NoneId
    /\ micArg = NoMic
    /\ ret = RetNone
    /\ coordsPointer = NoObject
    /\ micrographsPointer = NoObject
    /\ passed = [coords |-> NoObject, mics |-> NoObject]
    /\ OthersIdle

\* coord = Coordinate(); coord.setMicrograph(m); coordSet.append(coord), and
\* with m = NoMic the append of a coordinate that was given no micrograph
AppendCoordinate(m) ==
    /\ Len(log) < MaxCoords
    /\ LET c == Coordinate(NoneId, Len(log) + 1)
           r == append(Self, IF m = NoMic THEN c ELSE setMicrograph(c, m))
       IN  /\ Store(r.set)
           /\ CalledMic("appendCoordinate", m,
                        IF r.set.raised # NoExc THEN Raised(r.set.raised)
                        ELSE Ret(NoExc, <<r.item>>, 0, ""))
           /\ log' = Append(log, [given |-> NoneId, assigned |-> r.item.id,
                                  ok |-> r.set.raised = NoExc])
    /\ UNCHANGED <<disk, outsideSet>>

IterCoordinates(m) ==
    /\ LET r == iterCoordinates(Self, m)
       IN  /\ Store(r.set)
           /\ CalledMic("iterCoordinates", m, r.ret)
    /\ UNCHANGED <<disk, log, outsideSet>>

SetCoordinates(c) ==
    /\ coordsPointer' = setCoordinates(coordsPointer, c)
    /\ passed' = [passed EXCEPT !.coords = c]
    /\ Called("setCoordinates", NoneId, RetNone)
    /\ UNCHANGED <<setVars, micrographsPointer, otherVars>>

GetCoordinates ==
    /\ Called("getCoordinates", NoneId, Ret(NoExc, <<>>, 0, getCoordinates(coordsPointer)))
    /\ UNCHANGED <<setVars, ptrVars, otherVars>>

SetMicrographs(ms) ==
    /\ micrographsPointer' = setMicrographs(micrographsPointer, ms)
    /\ passed' = [passed EXCEPT !.mics = ms]
    /\ Called("setMicrographs", NoneId, RetNone)
    /\ UNCHANGED <<setVars, coordsPointer, otherVars>>

GetMicrographs ==
    /\ Called("getMicrographs", NoneId, Ret(NoExc, <<>>, 0, getMicrographs(micrographsPointer)))
    /\ UNCHANGED <<setVars, ptrVars, otherVars>>

NextCoord ==
    \/ \E f \in FileNames : SetFileName(f)
    \/ \E m \in Micrographs \cup {NoMic} : AppendCoordinate(m)
    \/ \E m \in Micrographs \cup {NoMic} : IterCoordinates(m)
    \/ \E c \in CoordinateSets : SetCoordinates(c)
    \/ GetCoordinates
    \/ \E ms \in MicrographSets : SetMicrographs(ms)
    \/ GetMicrographs
    \/ Write
    \/ Load

SpecCoord == InitCoord /\ [][NextCoord]_vars

\* C8: getCoordinates() returns the set last passed to setCoordinates and
\* getMicrographs() the set last passed to setMicrographs; a coordinate given
\* a micrograph m holds m and m's id; iterCoordinates(m) yields, in the order
\* of the set, exactly the coordinates whose micrograph id is m's id, and
\* iterCoordinates(None) yields every coordinate of the set.
C8_Relations ==
    /\ lastOp = "getCoordinates" => ret.str = passed.coords
    /\ lastOp = "getMicrographs" => ret.str = passed.mics
    /\ lastOp = "appendCoordinate" /\ micArg # NoMic =>
          /\ ret.exc = NoExc =>
                /\ ret.items[1].mic = micArg.name
                /\ ret.items[1].micId = micArg.id
          /\ mapper.open => Rows[Len(Rows)].micId = micArg.id
    /\ lastOp = "iterCoordinates" /\ ret.exc = NoExc =>
          /\ mapper.open
          /\ LET ks == {k \in DOMAIN Rows :
                             micArg = NoMic \/ Rows[k].micId = micArg.id}
             IN /\ Len(ret.items) = Cardinality(ks)
                /\ \A i \in DOMAIN ret.items :
                      \E k \in ks : /\ ret.items[i] = Rows[k]
                                    /\ Cardinality({j \in ks : j < k}) = i - 1

\* C8's case: iterCoordinates(m) of a micrograph with an id, on a set with a
\* pointer to its micrographs that holds coordinates of m and of another
\* micrograph, yielded two coordinates and left one out.
C8_Witness ==
    /\ lastOp = "iterCoordinates"
    /\ micArg # NoMic /\ micArg.id # NoneId
    /\ micrographsPointer # NoObject
    /\ Len(ret.items) = 2
    /\ Len(Rows) = 3

----------------------------------------------------------------------------
(* SetOfImages, SetOfMicrographs and SetOfParticles: the acquisition        *)
(* metadata.  A Float is an exact rational <<numerator, denominator>>, the  *)
(* denominator positive and the fraction reduced, so that the products and  *)
(* quotients of the code are computed, not assumed; NoneFloat is a Float()  *)
(* holding no value.  Voltages are in kV, spherical aberrations and         *)
(* amplitude contrasts in hundredths.                                       *)

MaxDownsamples == 2

RECURSIVE GCD(_, _)
GCD(a, b) == IF b = 0 THEN a ELSE GCD(b, a % b)

Rat(n, d) == LET g == GCD(IF n < 0 THEN 0 - n ELSE n, d) IN <<n \div g, d \div g>>
RatMul(x, y) == Rat(x[1] * y[1], x[2] * y[2])
RatDiv(x, y) == Rat(x[1] * y[2], x[2] * y[1])
NoneFloat == <<0, 0>>

\* the literals 1e-4 and 1e+4 of SetOfMicrographs
TenToMinus4 == <<1, 10000>>
TenTo4 == <<10000, 1>>

ImageSets == {"a", "b"}
Classes == {"SetOfImages", "SetOfMicrographs", "SetOfParticles"}

TypeErrorExc == "TypeError: unsupported operand type(s) for *: 'NoneType'"
AttributeErrorExc == "AttributeError: no attribute 'getScannedPixelSize'"

\* Acquisition.__init__
NewAcquisition == [magnification |-> 60000, voltage |-> 300,
                   sphericalAberration |-> 200, amplitudeContrast |-> 10]

\* SetOfImages.__init__ and its subclasses', on Set.__init__: a set of the
\* given class with the given filename, holding n items
NewSetOfImages(cls, fn, n) ==
    [cls |-> cls, filename |-> fn, size |-> n,
     rows |-> [k \in 1..n |-> Item(k, k)],
     samplingRate |-> NoneFloat, scannedPixelSize |-> NoneFloat,
     hasCtf |-> FALSE, acquisition |-> NewAcquisition]

\* the result of a method: the object after it and the exception it raised
Done(obj) == [obj |-> obj, exc |-> NoExc]
Failed(obj, exc) == [obj |-> obj, exc |-> exc]

\* Acquisition.copyInfo
Acquisition_copyInfo(self, other) ==
    [self EXCEPT !.magnification = other.magnification,
                 !.voltage = other.voltage,
                 !.sphericalAberration = other.sphericalAberration,
                 !.amplitudeContrast = other.amplitudeContrast]

\* SetOfImages.copyInfo
SetOfImages_copyInfo(self, other) ==
    [self EXCEPT !.samplingRate = other.samplingRate,
                 !.acquisition = Acquisition_copyInfo(@, other.acquisition)]

\* SetOfMicrographs.copyInfo
SetOfMicrographs_copyInfo(self, other) ==
    LET s1 == SetOfImages_copyInfo(self, other)
    IN  IF other.cls # "SetOfMicrographs"
        THEN Failed(s1, AttributeErrorExc)
        ELSE Done([s1 EXCEPT !.scannedPixelSize = other.scannedPixelSize])

\* SetOfImages.setHasCTF
setHasCTF(self, value) == [self EXCEPT !.hasCtf = value]

\* SetOfImages.hasCTF
hasCTF(self) == self.hasCtf

\* SetOfParticles.copyInfo without its setHasCTF
SetOfParticles_copyInfoNoCtf(self, other) == SetOfImages_copyInfo(self, other)

\* SetOfParticles.copyInfo
SetOfParticles_copyInfo(self, other) ==
    setHasCTF(SetOfImages_copyInfo(self, other), hasCTF(other))

\* dst.copyInfo(src), by the class of dst
copyInfo(self, other) ==
    CASE self.cls = "SetOfMicrographs" -> SetOfMicrographs_copyInfo(self, other)
      [] self.cls = "SetOfParticles" -> Done(SetOfParticles_copyInfo(self, other))
      [] OTHER -> Done(SetOfImages_copyInfo(self, other))

\* SetOfImages.setSamplingRate
SetOfImages_setSamplingRate(self, samplingRate) ==
    [self EXCEPT !.samplingRate = samplingRate]

\* SetOfMicrographs.setSamplingRate
SetOfMicrographs_setSamplingRate(self, samplingRate) ==
    [self EXCEPT !.samplingRate = samplingRate,
                 !.scannedPixelSize =
                     RatMul(RatMul(TenToMinus4, samplingRate),
                            <<self.acquisition.magnification, 1>>)]

\* x.setSamplingRate(r), by the class of x
setSamplingRate(self, samplingRate) ==
    IF self.cls = "SetOfMicrographs"
    THEN SetOfMicrographs_setSamplingRate(self, samplingRate)
    ELSE SetOfImages_setSamplingRate(self, samplingRate)

\* SetOfMicrographs.setScannedPixelSize
setScannedPixelSize(self, scannedPixelSize) ==
    [self EXCEPT !.scannedPixelSize = scannedPixelSize,
                 !.samplingRate =
                     RatDiv(RatMul(TenTo4, scannedPixelSize),
                            <<self.acquisition.magnification, 1>>)]

\* setDownsample calling SetOfImages.setSamplingRate whatever the class
setDownsampleBase(self, downFactor) ==
    IF self.samplingRate = NoneFloat
    THEN Failed(self, TypeErrorExc)
    ELSE Done(SetOfImages_setSamplingRate(self, RatMul(self.samplingRate, downFactor)))

\* SetOfImages.setDownsample
setDownsample(self, downFactor) ==
    IF self.samplingRate = NoneFloat
    THEN Failed(self, TypeErrorExc)
    ELSE Done(setSamplingRate(self, RatMul(self.samplingRate, downFactor)))

\* ProtImportImages.importImages: the acquisition properties it sets
setAcquisition(self, voltage, sphericalAberration, amplitudeContrast) ==
    [self EXCEPT !.acquisition.voltage = voltage,
                 !.acquisition.sphericalAberration = sphericalAberration,
                 !.acquisition.amplitudeContrast = amplitudeContrast]

\* ProtImportMicrographs._setOtherPars
setOtherPars(micSet, magnification, samplingRateMode, value) ==
    LET m == [micSet EXCEPT !.acquisition.magnification = magnification]
    IN  IF samplingRateMode = "SAMPLING_FROM_IMAGE"
        THEN setSamplingRate(m, value)
        ELSE setScannedPixelSize(m, value)

\* the values the callers give
SamplingRates == {<<1, 1>>, <<2, 1>>, <<7, 2>>}
ScannedPixelSizes == {<<7, 1>>, <<14, 1>>}
DownFactors == {<<2, 1>>, <<3, 1>>, <<3, 2>>}
Magnifications == {50000, 60000}
SamplingRateModes == {"SAMPLING_FROM_IMAGE", "SAMPLING_FROM_SCANNER"}

InfoCall(op, dst, src, val, exc, n) ==
    [op |-> op, dst |-> dst, src |-> src, val |-> val, exc |-> exc, n |-> n]

\* the variables of the Set, as Set.__init__ leaves them, and no file
SetIdle ==
    /\ filename = NewSet.filename
    /\ mapper = NewSet.mapper
    /\ idCount = NewSet.idCount
    /\ size = NewSet.size
    /\ idMap = NewSet.idMap
    /\ loadCount = 0
    /\ disk = <<>>
    /\ log = <<>>
    /\ lastOp = "init"
    /\ arg = NoneId
    /\ micArg = NoMic
    /\ ret = RetNone
    /\ coordsPointer = NoObject
    /\ micrographsPointer = NoObject
    /\ passed = [coords |-> NoObject, mics |-> NoObject]

setSide == <<setVars, callVars, ptrVars, protVars>>

\* two new sets of any classes: a is empty, b holds two items
InitInfo ==
    /\ SetIdle
    /\ \E ca, cb \in Classes :
          sets = [x \in ImageSets |->
                    IF x = "a" THEN NewSetOfImages(ca, "a.sqlite", 0)
                    ELSE NewSetOfImages(cb, "b.sqlite", 2)]
    /\ infoCall = InfoCall("init", NoObject, NoObject, NoneFloat, NoExc, 0)
    /\ spider = <<>>
    /\ ProtocolIdle

SetSamplingRate(x, r) ==
    /\ sets' = [sets EXCEPT ![x] = setSamplingRate(@, r)]
    /\ infoCall' = InfoCall("setSamplingRate", x, NoObject, r, NoExc, infoCall.n)
    /\ UNCHANGED <<setSide, spider>>

SetScannedPixelSize(x, s) ==
    /\ sets[x].cls = "SetOfMicrographs"
    /\ sets' = [sets EXCEPT ![x] = setScannedPixelSize(@, s)]
    /\ infoCall' = InfoCall("setScannedPixelSize", x, NoObject, s, NoExc, infoCall.n)
    /\ UNCHANGED <<setSide, spider>>

SetDownsample(x, f) ==
    /\ infoCall.n < MaxDownsamples
    /\ LET r == setDownsample(sets[x], f)
       IN  /\ sets' = [sets EXCEPT ![x] = r.obj]
           /\ infoCall' = InfoCall("setDownsample", x, NoObject, f, r.exc, infoCall.n + 1)
    /\ UNCHANGED <<setSide, spider>>

SetHasCTF(x, v) ==
    /\ sets' = [sets EXCEPT ![x] = setHasCTF(@, v)]
    /\ infoCall' = InfoCall("setHasCTF", x, NoObject, NoneFloat, NoExc, infoCall.n)
    /\ UNCHANGED <<setSide, spider>>

SetAcquisition(x, a) ==
    /\ sets' = [sets EXCEPT ![x] = setAcquisition(@, a[1], a[2], a[3])]
    /\ infoCall' = InfoCall("setAcquisition", x, NoObject, NoneFloat, NoExc, infoCall.n)
    /\ UNCHANGED <<setSide, spider>>

SetOtherPars(x, m, mode, v) ==
    /\ sets[x].cls = "SetOfMicrographs"
    /\ sets' = [sets EXCEPT ![x] = setOtherPars(@, m, mode, v)]
    /\ infoCall' = InfoCall("setOtherPars", x, NoObject, v, NoExc, infoCall.n)
    /\ UNCHANGED <<setSide, spider>>

CopyInfo(dst, src) ==
    /\ LET r == copyInfo(sets[dst], sets[src])
       IN  /\ sets' = [sets EXCEPT ![dst] = r.obj]
           /\ infoCall' = InfoCall("copyInfo", dst, src, NoneFloat, r.exc, infoCall.n)
    /\ UNCHANGED <<setSide, spider>>

NextInfo ==
    \/ \E x \in ImageSets : SetSamplingRate(x, <<2, 1>>)
    \/ \E x \in ImageSets : SetHasCTF(x, TRUE)
    \/ \E x \in ImageSets : SetAcquisition(x, <<200, 226, 10>>)
    \/ \E x \in ImageSets : SetOtherPars(x, 50000, "SAMPLING_FROM_SCANNER", <<7, 1>>)
    \/ \E dst, src \in ImageSets : CopyInfo(dst, src)

SpecInfo == InitInfo /\ [][NextInfo]_vars

\* C7: after dst.copyInfo(src), dst's sampling rate and its acquisition's
\* magnification, voltage, spherical aberration and amplitude contrast are
\* src's; on a SetOfParticles dst.hasCTF() is src.hasCTF() as well, on a
\* SetOfMicrographs dst's scanned pixel size is src's as well; src and every
\* other set are unchanged, and so are dst's class, items, size and filename.
C7_CopyInfo ==
    [][infoCall'.op = "copyInfo" /\ infoCall'.exc = NoExc =>
          LET dst == infoCall'.dst
              src == infoCall'.src
              new == sets'[dst]
              old == sets[dst]
              other == sets[src]
          IN  /\ new.samplingRate = other.samplingRate
              /\ new.acquisition.magnification = other.acquisition.magnification
              /\ new.acquisition.voltage = other.acquisition.voltage
              /\ new.acquisition.sphericalAberration = other.acquisition.sphericalAberration
              /\ new.acquisition.amplitudeContrast = other.acquisition.amplitudeContrast
              /\ old.cls = "SetOfParticles" => hasCTF(new) = hasCTF(other)
              /\ old.cls = "SetOfMicrographs" =>
                    new.scannedPixelSize = other.scannedPixelSize
              /\ \A x \in ImageSets \ {dst} : sets'[x] = sets[x]
              /\ src = dst => new = old
              /\ new.cls = old.cls /\ new.rows = old.rows
              /\ new.size = old.size /\ new.filename = old.filename]_vars

\* C7's case: a SetOfParticles copied the information of another set, which
\* has a CTF, a sampling rate and an acquisition that is not the default one.
C7_Witness ==
    /\ infoCall.op = "copyInfo" /\ infoCall.exc = NoExc
    /\ infoCall.dst # infoCall.src
    /\ sets[infoCall.dst].cls = "SetOfParticles"
    /\ hasCTF(sets[infoCall.src]) /\ hasCTF(sets[infoCall.dst])
    /\ sets[infoCall.dst].samplingRate # NoneFloat
    /\ sets[infoCall.dst].acquisition # NewAcquisition
    /\ sets[infoCall.dst].size # sets[infoCall.src].size

\* one SetOfMicrographs, a
InitMic ==
    /\ SetIdle
    /\ sets = [x \in ImageSets |->
                 IF x = "a" THEN NewSetOfImages("SetOfMicrographs", "a.sqlite", 0)
                 ELSE NewSetOfImages("SetOfImages", "b.sqlite", 0)]
    /\ infoCall = InfoCall("init", NoObject, NoObject, NoneFloat, NoExc, 0)
    /\ spider = <<>>
    /\ ProtocolIdle

NextMic ==
    \/ \E r \in SamplingRates : SetSamplingRate("a", r)
    \/ \E s \in ScannedPixelSizes : SetScannedPixelSize("a", s)
    \/ \E f \in DownFactors : SetDownsample("a", f)
    \/ \E m \in Magnifications, mode \in SamplingRateModes,
          v \in SamplingRates \cup ScannedPixelSizes : SetOtherPars("a", m, mode, v)

SpecMic == InitMic /\ [][NextMic]_vars

\* scannedPixelSize = 1e-4 * samplingRate * magnification
Coupled(micSet) ==
    /\ micSet.samplingRate # NoneFloat
    /\ micSet.scannedPixelSize # NoneFloat
    /\ micSet.scannedPixelSize =
          RatMul(RatMul(TenToMinus4, micSet.samplingRate),
                 <<micSet.acquisition.magnification, 1>>)

----------------------------------------------------------------------------
(* The Spider location conversion of packages/spider/convert.py.  A string  *)
(* is the sequence of its characters.                                       *)

MaxLen == 2
MaxIndex == 11

\* pyworkflow.em.constants.NO_INDEX, the index of an image that is not in a
\* stack (Image._index is created as Integer(0))
NO_INDEX == 0

ValueErrorExc == "ValueError"

Digits == <<"0", "1", "2", "3", "4", "5", "6", "7", "8", "9">>
IsDigit(c) == \E d \in DOMAIN Digits : Digits[d] = c
DigitValue(c) == (CHOOSE d \in DOMAIN Digits : Digits[d] = c) - 1

\* "%d" % n, of a natural number
RECURSIVE FormatNat(_)
FormatNat(n) ==
    IF n < 10 THEN <<Digits[n + 1]>>
    ELSE FormatNat(n \div 10) \o <<Digits[(n % 10) + 1]>>

\* "%d" % n
FormatInt(n) == IF n < 0 THEN <<"-">> \o FormatNat(0 - n) ELSE FormatNat(n)

\* the value of a string of digits, read from the left
RECURSIVE DigitsValue(_, _)
DigitsValue(acc, s) ==
    IF s = <<>> THEN acc ELSE DigitsValue(10 * acc + DigitValue(Head(s)), Tail(s))

\* int(s): [exc, n]
ParseInt(s) ==
    LET signed == s # <<>> /\ Head(s) \in {"-", "+"}
        body == IF signed THEN Tail(s) ELSE s
    IN  IF body = <<>> \/ \E i \in DOMAIN body : ~IsDigit(body[i])
        THEN [exc |-> ValueErrorExc, n |-> 0]
        ELSE [exc |-> NoExc,
              n |-> IF signed /\ Head(s) = "-" THEN 0 - DigitsValue(0, body)
                    ELSE DigitsValue(0, body)]

\* s.split('@'): the pieces of s between its '@'
RECURSIVE SplitAt(_, _)
SplitAt(piece, s) ==
    IF s = <<>> THEN <<piece>>
    ELSE IF Head(s) = "@" THEN <<piece>> \o SplitAt(<<>>, Tail(s))
         ELSE SplitAt(Append(piece, Head(s)), Tail(s))

Location(exc, index, fn) == [exc |-> exc, index |-> index, filename |-> fn]

\* locationToSpider without its test of NO_INDEX
locationToSpiderAlways(index, fn) == fn \o <<"@">> \o FormatInt(index)

\* locationToSpider
locationToSpider(index, fn) ==
    IF index # NO_INDEX THEN fn \o <<"@">> \o FormatInt(index) ELSE fn

\* spiderToLocation
spiderToLocation(spiderFilename) ==
    IF \E i \in DOMAIN spiderFilename : spiderFilename[i] = "@"
    THEN LET pieces == SplitAt(<<>>, spiderFilename)
         IN  IF Len(pieces) # 2 THEN Location(ValueErrorExc, NO_INDEX, <<>>)
             ELSE LET index == ParseInt(pieces[2])
                  IN  IF index.exc # NoExc
                      THEN Location(ValueErrorExc, NO_INDEX, <<>>)
                      ELSE Location(NoExc, index.n, pieces[1])
    ELSE Location(NoExc, NO_INDEX, spiderFilename)

\* the strings of at most n characters of the set cs
RECURSIVE Strings(_, _)
Strings(cs, n) ==
    IF n = 0 THEN {<<>>}
    ELSE LET shorter == Strings(cs, n - 1)
         IN  shorter \cup {Append(s, c) : s \in shorter, c \in cs}

\* the inputs: filenames, with and without '@', indexes of one and two
\* digits, negative ones and NO_INDEX, and Spider filenames
Filenames == Strings({"a", "7", "@"}, MaxLen)
Indexes == (0 - 2)..MaxIndex
SpiderFilenames == Strings({"a", "7", "@", "-"}, MaxLen + 1)

HasAt(s) == \E i \in DOMAIN s : s[i] = "@"

InitSpider ==
    /\ SetIdle
    /\ sets = [x \in {"a", "b"} |-> <<>>]
    /\ infoCall = <<>>
    /\ spider = [op |-> "init", index |-> NO_INDEX, filename |-> <<>>,
                 str |-> <<>>, loc |-> Location(NoExc, NO_INDEX, <<>>)]
    /\ ProtocolIdle

\* s = locationToSpider(index, filename) and then spiderToLocation(s)
LocationToSpider(index, fn) ==
    /\ LET s == locationToSpider(index, fn)
       IN  spider' = [op |-> "locationToSpider", index |-> index, filename |-> fn,
                      str |-> s, loc |-> spiderToLocation(s)]
    /\ UNCHANGED <<setSide, sets, infoCall>>

SpiderToLocation(s) ==
    /\ spider' = [op |-> "spiderToLocation", index |-> NO_INDEX, filename |-> <<>>,
                  str |-> s, loc |-> spiderToLocation(s)]
    /\ UNCHANGED <<setSide, sets, infoCall>>

NextSpider ==
    \/ \E index \in Indexes, fn \in Filenames : LocationToSpider(index, fn)
    \/ \E s \in SpiderFilenames : SpiderToLocation(s)

SpecSpider == InitSpider /\ [][NextSpider]_vars

\* C10: for a filename without '@' and an index other than NO_INDEX,
\* locationToSpider(index, filename) is the filename, an '@' and the index,
\* and spiderToLocation of it is (index, filename); for NO_INDEX it is the
\* bare filename, and spiderToLocation of a string without '@' is
\* (NO_INDEX, the string).
C10_RoundTrip ==
    /\ spider.op = "locationToSpider" /\ ~HasAt(spider.filename) =>
          IF spider.index # NO_INDEX
          THEN /\ Len(spider.str) > Len(spider.filename) + 1
               /\ SubSeq(spider.str, 1, Len(spider.filename)) = spider.filename
               /\ spider.str[Len(spider.filename) + 1] = "@"
               /\ ~HasAt(SubSeq(spider.str, Len(spider.filename) + 2, Len(spider.str)))
               /\ spider.loc = Location(NoExc, spider.index, spider.filename)
          ELSE /\ spider.str = spider.filename
               /\ spider.loc = Location(NoExc, NO_INDEX, spider.filename)
    /\ spider.op = "spiderToLocation" /\ ~HasAt(spider.str) =>
          spider.loc = Location(NoExc, NO_INDEX, spider.str)

\* C10's case: a filename of two characters without '@' and a two-digit
\* index came back from the round trip.
C10_Witness ==
    /\ spider.op = "locationToSpider"
    /\ spider.filename = <<"a", "7">>
    /\ spider.index = 10
    /\ spider.str = <<"a", "7", "@", "1", "0">>
    /\ spider.loc.index = 10

----------------------------------------------------------------------------
(* The import protocols of pwem/protocol.py and the file system they read. *)
(* A path is a directory and a name, a sequence of characters; an entry of *)
(* the file system is a path and what is there, a file or a directory.     *)
(* A pattern is a path whose name may hold the wildcard '*'.  The empty    *)
(* string is the pattern with no directory and no name, and a StringParam  *)
(* that was never filled holds None.                                       *)

MaxPattern == 2

\* the directory of the user's data and the protocol's own, self._getPath()
DataDir == "data"
RunDir == "run"

Entry(dir, name, kind) == [dir |-> dir, name |-> name, kind |-> kind]
Path(dir, name) == [dir |-> dir, name |-> name]
PathOf(e) == Path(e.dir, e.name)

EmptyPattern == Path("", <<>>)
NonePattern == Path(NoObject, <<>>)

\* the entries the file system may hold before a protocol runs
Entries == {Entry(DataDir, <<"a">>, "file"), Entry(DataDir, <<"a", "b">>, "file"),
            Entry(DataDir, <<"b">>, "dir"), Entry(RunDir, <<"a">>, "file"),
            Entry(RunDir, <<"volumes", ".sqlite">>, "file")}

\* the patterns a user may type
Patterns == {Path(d, n) : d \in {DataDir, RunDir},
                          n \in Strings({"a", "b", "*"}, MaxPattern) \ {<<>>}}
            \cup {EmptyPattern, NonePattern}

\* fnmatch: '*' matches any run of characters, another character itself
RECURSIVE fnmatch(_, _)
fnmatch(name, pat) ==
    IF pat = <<>> THEN name = <<>>
    ELSE IF Head(pat) = "*"
         THEN fnmatch(name, Tail(pat)) \/ (name # <<>> /\ fnmatch(Tail(name), pat))
         ELSE name # <<>> /\ Head(name) = Head(pat) /\ fnmatch(Tail(name), Tail(pat))

\* glob(pattern): the paths that exist and match, files and directories
glob(fs, pattern) ==
    {PathOf(e) : e \in {x \in fs : x.dir = pattern.dir /\ fnmatch(x.name, pattern.name)}}

GlobTypeErrorExc == "TypeError: expected string or buffer"

EmptyPatternError == "The *pattern* cannot be empty."
NoFilesError == "There are no files matching the *pattern*"
VolumesPatternError == "Pattern cannot be EMPTY."

\* the result of _validate: the list of errors, or the exception raised
Errors(errors, exc) == [errors |-> errors, exc |-> exc]

\* ProtImportVolumes._validate
ProtImportVolumes_validate(self, fs) ==
    IF self.pattern = EmptyPattern
    THEN Errors(<<VolumesPatternError>>, NoExc)
    ELSE Errors(<<>>, NoExc)

\* _validate that does not look for the files
ProtImportImages_validateEmptyOnly(self, fs) ==
    IF self.pattern = EmptyPattern
    THEN Errors(<<EmptyPatternError>>, NoExc)
    ELSE Errors(<<>>, NoExc)

\* ProtImportImages._validate
ProtImportImages_validate(self, fs) ==
    IF self.pattern = EmptyPattern
    THEN Errors(<<EmptyPatternError>>, NoExc)
    ELSE IF self.pattern = NonePattern
         THEN Errors(<<>>, GlobTypeErrorExc)
         ELSE IF Cardinality(glob(fs, self.pattern)) = 0
              THEN Errors(<<NoFilesError>>, NoExc)
              ELSE Errors(<<>>, NoExc)

\* self._validate(), by the class of the protocol
validate(self, fs) ==
    IF self.cls = "ProtImportVolumes"
    THEN ProtImportVolumes_validate(self, fs)
    ELSE ProtImportImages_validate(self, fs)

\* the order of the characters in a sort of paths
SortOrder == <<"*", ".sqlite", "_", "a", "b", "c", "classes2D", "coordinates",
               "ctfs", "d", "micrographs", "particles", "r", "volumes">>
Rank(c) == CHOOSE i \in DOMAIN SortOrder : SortOrder[i] = c

\* s < t for two strings
RECURSIVE StrLess(_, _)
StrLess(s, t) ==
    IF t = <<>> THEN FALSE
    ELSE IF s = <<>> THEN TRUE
    ELSE IF Head(s) # Head(t) THEN Rank(Head(s)) < Rank(Head(t))
    ELSE StrLess(Tail(s), Tail(t))

\* the characters of a path: the directory and the name
PathChars(path) ==
    IF path.dir = DataDir THEN <<"d">> \o path.name ELSE <<"r">> \o path.name

PathLess(p, q) == StrLess(PathChars(p), PathChars(q))

\* the path as one string: join(dir, name)
RECURSIVE Join(_)
Join(s) == IF s = <<>> THEN "" ELSE Head(s) \o Join(Tail(s))
join(path) == path.dir \o "/" \o Join(path.name)

\* filePaths.sort(): the paths of a list in increasing order
RECURSIVE sort(_)
sort(paths) ==
    IF paths = {} THEN <<>>
    ELSE LET first == CHOOSE x \in paths : \A y \in paths \ {x} : PathLess(x, y)
         IN  <<first>> \o sort(paths \ {first})

IOErrorExc == "IOError"
SameFileExc == "shutil.Error: are the same file"
NoFilePathsExc == "importVolumes:There is not filePaths matching pattern"

\* what is at a path: "file", "dir" or nothing
KindAt(fs, path) ==
    IF \E e \in fs : PathOf(e) = path
    THEN (CHOOSE e \in fs : PathOf(e) = path).kind
    ELSE NoObject

\* shutil.copyfile(src, dst): the file system after it and what it raised
copyfile(fs, src, dst) ==
    IF src = dst /\ KindAt(fs, src) # NoObject THEN [fs |-> fs, exc |-> SameFileExc]
    ELSE IF KindAt(fs, src) # "file" \/ KindAt(fs, dst) = "dir"
         THEN [fs |-> fs, exc |-> IOErrorExc]
         ELSE [fs |-> {e \in fs : PathOf(e) # dst} \cup {Entry(dst.dir, dst.name, "file")},
               exc |-> NoExc]

\* cleanPath(path): whatever is at the path is removed
cleanPath(fs, path) == {e \in fs : PathOf(e) # path}

\* self._getPath(name) and basename(path)
getPath(name) == Path(RunDir, name)
basename(path) == path.name

\* template % suffix: the suffix in the place of '%s'
RECURSIVE Format(_, _)
Format(template, suffix) ==
    IF template = <<>> THEN <<>>
    ELSE IF Head(template) = "%s" THEN suffix \o Format(Tail(template), suffix)
    ELSE <<Head(template)>> \o Format(Tail(template), suffix)

\* SetClass(): Set.__init__, and the sampling rate of a SetOfImages
NewSetOfClass(cls) == [cls |-> cls, samplingRate |-> NoneFloat] @@ NewSet

\* EMProtocol.__createSet that leaves the file of the set where it is
createSetKeepFile(fs, SetClass, template, suffix) ==
    [fs |-> fs,
     set |-> setFileName(NewSetOfClass(SetClass), join(getPath(Format(template, suffix))))]

\* EMProtocol.__createSet: the file system after it and the set returned
createSet(fs, SetClass, template, suffix) ==
    LET setObj == NewSetOfClass(SetClass)
        setFn == getPath(Format(template, suffix))
    IN  [fs |-> cleanPath(fs, setFn), set |-> setFileName(setObj, join(setFn))]

\* the _createSetOf* methods: the class and the template of each
SetTemplates ==
    [SetOfMicrographs |-> <<"micrographs", "%s", ".sqlite">>,
     SetOfCoordinates |-> <<"coordinates", "%s", ".sqlite">>,
     SetOfParticles |-> <<"particles", "%s", ".sqlite">>,
     SetOfClasses2D |-> <<"classes2D", "%s", ".sqlite">>,
     SetOfVolumes |-> <<"volumes", "%s", ".sqlite">>,
     SetOfCTF |-> <<"ctfs", "%s", ".sqlite">>]

createSetOf(fs, SetClass, suffix) == createSet(fs, SetClass, SetTemplates[SetClass], suffix)

\* Volume(): an Image, an Item with a filename and a sampling rate
Volume == [id |-> NoneId, tag |-> "Volume", fileName |-> NoObject,
           samplingRate |-> NoneFloat]

\* ProtImportVolumes.createVolume: the file system after the copy, what the
\* copy raised and the volume
createVolume(self, fs, volumePath) ==
    LET dst == getPath(basename(volumePath))
        copy == copyfile(fs, volumePath, dst)
    IN  [fs |-> copy.fs, exc |-> copy.exc,
         vol |-> [Volume EXCEPT !.fileName = join(dst), !.samplingRate = self.samplingRate]]

\* the file of the volumes, which exists once the mapper of the set was
\* opened
VolumesPath == getPath(Format(SetTemplates.SetOfVolumes, <<>>))
withMapperFile(fs, s) ==
    IF s.mapper.open
    THEN cleanPath(fs, VolumesPath) \cup {Entry(VolumesPath.dir, VolumesPath.name, "file")}
    ELSE fs

\* the loop of importVolumes over the sorted paths; it ends at the first
\* exception
RECURSIVE importLoop(_, _, _)
importLoop(self, st, filePaths) ==
    IF filePaths = <<>> \/ st.exc # NoExc THEN st
    ELSE LET v == createVolume(self, st.fs, Head(filePaths))
             a == append(st.set, v.vol)
         IN  IF v.exc # NoExc
             THEN [st EXCEPT !.exc = v.exc]
             ELSE importLoop(self, [fs |-> withMapperFile(v.fs, a.set), set |-> a.set,
                                    exc |-> a.set.raised], Tail(filePaths))

\* self._defineOutputs(name=set): the attribute is set, or set again
defineOutputs(self, name, set) ==
    [self EXCEPT !.outputs = SelectSeq(@, LAMBDA o : o.name # name)
                             \o <<[name |-> name, set |-> set]>>]

hasOutput(self, name) == \E i \in DOMAIN self.outputs : self.outputs[i].name = name

\* the result of a step: the protocol and the file system after it, the
\* exception it raised, the paths it matched, the set it made and the rows
\* that volSet.write() committed to the file of the set
StepResult(self, fs, exc, filePaths, set, committed) ==
    [self |-> self, fs |-> fs, exc |-> exc, filePaths |-> filePaths, set |-> set,
     committed |-> committed]

\* importVolumes that goes on when no file matches
importVolumesAnyway(self, fs, pattern, samplingRate) ==
    LET filePaths == sort(glob(fs, pattern))
        made == createSetOf(fs, "SetOfVolumes", <<>>)
        volSet == setSamplingRate(made.set, self.samplingRate)
        st == importLoop(self, [fs |-> made.fs, set |-> volSet, exc |-> NoExc], filePaths)
    IN  StepResult(defineOutputs(self, "outputVolumes", st.set), st.fs, NoExc,
                   filePaths, st.set, st.set.mapper.rows)

\* ProtImportVolumes.importVolumes
importVolumes(self, fs, pattern, samplingRate) ==
    IF pattern = NonePattern
    THEN StepResult(self, fs, GlobTypeErrorExc, <<>>, NewSet, <<>>)
    ELSE LET filePaths == sort(glob(fs, pattern))
             made == createSetOf(fs, "SetOfVolumes", <<>>)
             volSet == setSamplingRate(made.set, self.samplingRate)
             st == importLoop(self, [fs |-> made.fs, set |-> volSet, exc |-> NoExc],
                              filePaths)
         IN  IF Len(filePaths) = 0
             THEN StepResult(self, fs, NoFilePathsExc, filePaths, NewSet, <<>>)
             ELSE IF st.exc # NoExc
                  THEN StepResult(self, st.fs, st.exc, filePaths, st.set, <<>>)
                  ELSE StepResult(defineOutputs(self, "outputVolumes", st.set), st.fs,
                                  NoExc, filePaths, st.set, st.set.mapper.rows)

\* the protocols: one that validates as ProtImportImages does, and
\* ProtImportVolumes
ProtocolClasses == {"ProtImportParticles", "ProtImportVolumes"}

\* the suffixes given to the _createSetOf* methods
Suffixes == {<<>>, <<"_", "a">>}

\* the last call on the protocol: an operation, its arguments, the errors
\* _validate returned and the result of a step
ProtCall(op, args, errors, step) ==
    [op |-> op, args |-> args, errors |-> errors, step |-> step]
NoErrors == Errors(<<>>, NoExc)
NoStep == StepResult(<<>>, {}, NoExc, <<>>, NewSet, <<>>)

\* the Set of the first specification is not used: the sets of a protocol
\* are made and filled within a step, each on a file that __createSet has
\* removed, so that the mapper opened by append sees no rows (disk is <<>>)
InitImport ==
    /\ SetIdle
    /\ sets = [x \in {"a", "b"} |-> <<>>]
    /\ infoCall = <<>>
    /\ spider = <<>>
    /\ files \in SUBSET Entries
    /\ \E cls \in ProtocolClasses, r \in {NoneFloat, <<7, 2>>} :
          protocol = [cls |-> cls, pattern |-> NonePattern, samplingRate |-> r,
                      outputs |-> <<>>]
    /\ protCall = ProtCall("init", <<>>, NoErrors, NoStep)

\* the user fills the pattern of the form
SetPattern(pattern) ==
    /\ protocol' = [protocol EXCEPT !.pattern = pattern]
    /\ protCall' = ProtCall("setPattern", <<pattern>>, NoErrors, NoStep)
    /\ UNCHANGED <<files, setVars, callVars, ptrVars, sets, infoCall, spider>>

\* self._validate()
Validate ==
    /\ protCall' = ProtCall("_validate", <<>>, validate(protocol, files), NoStep)
    /\ UNCHANGED <<files, protocol, setVars, callVars, ptrVars, sets, infoCall, spider>>

\* the step of ProtImportVolumes._defineSteps
ImportVolumes ==
    /\ protocol.cls = "ProtImportVolumes"
    /\ LET r == importVolumes(protocol, files, protocol.pattern, protocol.samplingRate)
       IN  /\ protocol' = r.self
           /\ files' = r.fs
           /\ protCall' = ProtCall("importVolumes", <<protocol.pattern, protocol.samplingRate>>,
                                   NoErrors, r)
    /\ UNCHANGED <<setVars, callVars, ptrVars, sets, infoCall, spider>>

\* one of the _createSetOf* methods
CreateSetOf(SetClass, suffix) ==
    /\ LET r == createSetOf(files, SetClass, suffix)
       IN  /\ files' = r.fs
           /\ protCall' = ProtCall("createSetOf", <<SetClass, suffix>>, NoErrors,
                                   StepResult(protocol, r.fs, NoExc, <<>>, r.set, <<>>))
    /\ UNCHANGED <<protocol, setVars, callVars, ptrVars, sets, infoCall, spider>>

NextImport ==
    \/ \E pattern \in Patterns : SetPattern(pattern)
    \/ Validate
    \/ ImportVolumes

SpecImport == InitImport /\ [][NextImport]_vars

\* a protocol that makes its sets, and one that also imports volumes
NextCreateSet ==
    \/ \E SetClass \in DOMAIN SetTemplates, suffix \in Suffixes :
          CreateSetOf(SetClass, suffix)
    \/ SetPattern(Path(DataDir, <<"*">>))
    \/ ImportVolumes

SpecCreateSet == InitImport /\ [][NextCreateSet]_vars

\* the paths of the file system that a pattern matches
Matching(fs, pattern) ==
    {e \in fs : e.dir = pattern.dir /\ fnmatch(e.name, pattern.name)}

\* C11: ProtImportImages._validate returns the one error 'The *pattern*
\* cannot be empty.' for the empty pattern, the one error 'There are no
\* files matching the *pattern*' for a pattern that is not empty and matches
\* no file, and no error when a file matches; the protocol and the files
\* are as before the call.
C11_Validate ==
    [][protCall'.op = "_validate" /\ protocol.cls # "ProtImportVolumes"
         /\ protocol.pattern # NonePattern =>
          /\ protocol' = protocol
          /\ files' = files
          /\ protCall'.errors.exc = NoExc
          /\ protCall'.errors.errors =
                IF protocol.pattern = EmptyPattern
                THEN <<"The *pattern* cannot be empty.">>
                ELSE IF Matching(files, protocol.pattern) = {}
                     THEN <<"There are no files matching the *pattern*">>
                     ELSE <<>>]_vars

\* C11's case: a pattern with a wildcard that matches none of the files of
\* its directory was validated
C11_Witness ==
    /\ protCall.op = "_validate"
    /\ protocol.cls = "ProtImportParticles"
    /\ protocol.pattern = Path(DataDir, <<"b", "*">>)
    /\ Entry(DataDir, <<"a", "b">>, "file") \in files
    /\ Entry(DataDir, <<"b">>, "dir") \notin files
    /\ protCall.errors.errors = <<NoFilesError>>

\* a matched path that shutil.copyfile copies into the directory of the
\* protocol: a file, not a directory, that is not already there
Copyable(e) == e.kind = "file" /\ e.dir # RunDir

\* the step made a SetOfVolumes of the matched files, wrote it and defined it
\* as outputVolumes
ImportedAll(matched, r) ==
    LET rows == r.set.mapper.rows
    IN  /\ r.exc = NoExc
        /\ r.set.cls = "SetOfVolumes"
        /\ r.set.filename = "run/volumes.sqlite"
        /\ r.set.samplingRate = protocol.samplingRate
        /\ {r.filePaths[i] : i \in DOMAIN r.filePaths} = {PathOf(e) : e \in matched}
        /\ \A i, j \in DOMAIN r.filePaths :
              i < j => PathLess(r.filePaths[i], r.filePaths[j])
        /\ Len(rows) = Cardinality(matched)
        /\ r.set.size = Cardinality(matched)
        /\ \A i \in DOMAIN rows :
              /\ rows[i].fileName = join(Path(RunDir, r.filePaths[i].name))
              /\ rows[i].samplingRate = protocol.samplingRate
              /\ Entry(RunDir, r.filePaths[i].name, "file") \in files'
        /\ r.committed = rows
        /\ protocol'.outputs = <<[name |-> "outputVolumes", set |-> r.set]>>

\* ProtImportVolumes._validate rejects the empty pattern and no other
ValidatesEmptyOnly ==
    protCall'.op = "_validate" /\ protocol.cls = "ProtImportVolumes" =>
        protCall'.errors = IF protocol.pattern = EmptyPattern
                           THEN Errors(<<"Pattern cannot be EMPTY.">>, NoExc)
                           ELSE Errors(<<>>, NoExc)

\* C12: importVolumes raises, defines no outputVolumes and makes no set
\* when no file matches the pattern; when every matched path is a file that
\* is not already in the directory of the protocol, it makes a SetOfVolumes
\* of one Volume per matched file, in sorted order, each with the sampling
\* rate of the protocol, writes it and defines it as outputVolumes; when a
\* matched path is a directory or lies in the directory of the protocol the
\* copy raises and no outputVolumes is defined.  _validate of
\* ProtImportVolumes rejects only the empty pattern.
C12_ImportVolumes ==
    [][/\ protCall'.op = "importVolumes" =>
            LET matched == Matching(files, protocol.pattern)
                r == protCall'.step
            IN  /\ matched = {} =>
                      r.exc # NoExc /\ protocol' = protocol /\ files' = files
                /\ matched # {} /\ (\A e \in matched : Copyable(e)) =>
                      ImportedAll(matched, r)
                /\ (\E e \in matched : ~Copyable(e)) =>
                      r.exc # NoExc /\ protocol' = protocol
       /\ ValidatesEmptyOnly]_vars

\* C12 as stated: whenever a path matches, the set is made and defined
C12_Original ==
    [][/\ protCall'.op = "importVolumes" =>
            LET matched == Matching(files, protocol.pattern)
                r == protCall'.step
            IN  /\ matched = {} =>
                      r.exc # NoExc /\ protocol' = protocol /\ files' = files
                /\ matched # {} => ImportedAll(matched, r)
       /\ ValidatesEmptyOnly]_vars

\* C12's case: two files matched a pattern with a wildcard, and the set of
\* their two volumes, with the ids 1 and 2, is the output
C12_Witness ==
    /\ protCall.op = "importVolumes"
    /\ protCall.step.exc = NoExc
    /\ protocol.pattern = Path(DataDir, <<"a", "*">>)
    /\ protCall.step.filePaths = <<Path(DataDir, <<"a">>), Path(DataDir, <<"a", "b">>)>>
    /\ hasOutput(protocol, "outputVolumes")
    /\ protocol.outputs[1].set.mapper.rows =
          <<[Volume EXCEPT !.id = 1, !.fileName = "run/a", !.samplingRate = <<7, 2>>],
            [Volume EXCEPT !.id = 2, !.fileName = "run/ab", !.samplingRate = <<7, 2>>]>>
    /\ Entry(RunDir, <<"a", "b">>, "file") \in files

\* the names of the files of the sets, before the suffix
SetFileNames ==
    [SetOfMicrographs |-> "micrographs", SetOfCoordinates |-> "coordinates",
     SetOfParticles |-> "particles", SetOfClasses2D |-> "classes2D",
     SetOfVolumes |-> "volumes", SetOfCTF |-> "ctfs"]

\* C15: after a _createSetOf* method, which is __createSet with the class
\* and the template of the set, the set returned is of the class, its
\* filename is the template with the suffix in the directory of the
\* protocol, nothing is at that path any more (and every other file is
\* where it was), its size is 0 and it has no mapper.
C15_CreateSet ==
    [][protCall'.op = "createSetOf" =>
          LET SetClass == protCall'.args[1]
              suffix == protCall'.args[2]
              name == <<SetFileNames[SetClass]>> \o suffix \o <<".sqlite">>
              made == protCall'.step.set
          IN  /\ made.cls = SetClass
              /\ made.filename = "run/" \o SetFileNames[SetClass] \o Join(suffix) \o ".sqlite"
              /\ \A e \in files' : ~(e.dir = RunDir /\ e.name = name)
              /\ files' = {e \in files : ~(e.dir = RunDir /\ e.name = name)}
              /\ made.size = 0
              /\ made.mapper = NoMapper
              /\ made.idMap = <<>>
              /\ protocol' = protocol]_vars

\* C15's case: importVolumes wrote the file of its set, and then
\* _createSetOfVolumes removed it and returned a new set on that path
C15_Witness ==
    /\ protCall.op = "createSetOf"
    /\ protCall.args = <<"SetOfVolumes", <<>>>>
    /\ hasOutput(protocol, "outputVolumes")
    /\ protCall.step.set.filename = "run/volumes.sqlite"
    /\ Entry(RunDir, <<"volumes", ".sqlite">>, "file") \notin files
    /\ Entry(RunDir, <<"a">>, "file") \in files

----------------------------------------------------------------------------
(* ProtFrealign of pwem/packages/brandeis/protocol_frealign.py.  The value *)
(* of an EnumParam is the index of the chosen choice, from 0, and the      *)
(* constants of the package name these indexes; a parameter compares with  *)
(* a constant by its value, and a BooleanParam is true when it is set.     *)

\* from constants import *: the index of each choice
constants ==
    [MOD_RECONSTRUCTION |-> 0,
     MOD_REFINEMENT |-> 1,
     MOD_RANDOM_SEARCH_REFINEMENT |-> 2,
     MOD_SIMPLE_SEARCH_REFINEMENT |-> 3,
     MOD2_SIMPLE_SEARCH_REFINEMENT |-> 0,
     EWA_DISABLE |-> 0,
     EWA_SIMPLE |-> 1,
     EWA_REFERENCE |-> 2,
     EWA_SIMPLE_HAND |-> 3,
     FSC_CALC |-> 0,
     FSC_3DR_ODD |-> 1,
     FSC_3DR_EVEN |-> 2,
     FSC_3DR_ALL |-> 3,
     PAD_1 |-> 0,
     PAD_2 |-> 1,
     PAD_4 |-> 2,
     REF_ALL |-> 0,
     REF_ANGLES |-> 1]

\* the EnumParams of the form and the number of choices of each
EnumChoices == [mode |-> 5, Firstmode |-> 2, methodEwaldSphere |-> 5,
                methodCalcFsc |-> 4, paddingFactor |-> 3, paramRefine |-> 3]

\* the BooleanParams of the form
BooleanParams == {"useInitialAngles", "doMagRefinement", "doDefRefinement",
                  "doAstigRefinement", "doDefPartRefinement", "doExtraRealSpaceSym",
                  "doWienerFilter", "doBfactor", "writeMatchProjections",
                  "doAditionalStatisFSC"}

\* the form as _defineParams leaves it: every parameter at its default
NewProtFrealign ==
    [cls |-> "ProtFrealign",
     mode |-> constants.MOD_REFINEMENT, Firstmode |-> constants.MOD2_SIMPLE_SEARCH_REFINEMENT,
     methodEwaldSphere |-> constants.EWA_DISABLE, methodCalcFsc |-> constants.FSC_CALC,
     paddingFactor |-> constants.PAD_4, paramRefine |-> constants.REF_ALL,
     useInitialAngles |-> FALSE, doMagRefinement |-> FALSE,
     doDefRefinement |-> FALSE, doAstigRefinement |-> FALSE,
     doDefPartRefinement |-> FALSE, doExtraRealSpaceSym |-> FALSE,
     doWienerFilter |-> FALSE, doBfactor |-> FALSE,
     writeMatchProjections |-> TRUE, doAditionalStatisFSC |-> TRUE,
     symmetry |-> "c1", hasParams |-> FALSE, params |-> <<>>]

\* the value of a BooleanParam, as Python writes it
PyBool(param) == IF param THEN "True" ELSE "False"

\* 'T' or 'F' of a BooleanParam
TorF(param) == IF param THEN "T" ELSE "F"

\* the operation mode
mode(self) ==
    IF self.mode = constants.MOD_RECONSTRUCTION THEN 0
    ELSE IF self.mode = constants.MOD_REFINEMENT THEN 1
    ELSE IF self.mode = constants.MOD_RANDOM_SEARCH_REFINEMENT THEN 2
    ELSE IF self.mode = constants.MOD_SIMPLE_SEARCH_REFINEMENT THEN 3
    ELSE 4

\* the operation mode for iteration 1
mode2(self) ==
    IF self.Firstmode = constants.MOD2_SIMPLE_SEARCH_REFINEMENT THEN 0 - 3 ELSE 0 - 4

\* the Ewald sphere correction numbered as its choices are
metEwaldSphereInOrder(self) == self.methodEwaldSphere

\* the Ewald sphere correction
metEwaldSphere(self) ==
    IF self.methodEwaldSphere = constants.EWA_DISABLE THEN 0
    ELSE IF self.methodEwaldSphere = constants.EWA_SIMPLE THEN 1
    ELSE IF self.methodEwaldSphere = constants.EWA_REFERENCE THEN 2
    ELSE IF self.methodEwaldSphere = constants.EWA_SIMPLE_HAND THEN 0 - 1
    ELSE 0 - 2

\* the method of the FSC calculation; no key is set for another value
metFsc(self) ==
    IF self.methodCalcFsc = constants.FSC_CALC THEN 0
    ELSE IF self.methodCalcFsc = constants.FSC_3DR_ODD THEN 1
    ELSE IF self.methodCalcFsc = constants.FSC_3DR_EVEN THEN 2
    ELSE IF self.methodCalcFsc = constants.FSC_3DR_ALL THEN 3
    ELSE NoneId

padFactor(self) ==
    IF self.paddingFactor = constants.PAD_1 THEN 1
    ELSE IF self.paddingFactor = constants.PAD_2 THEN 2
    ELSE 4

paramRefine(self) ==
    IF self.paramRefine = constants.REF_ALL THEN "1, 1, 1, 1, 1"
    ELSE IF self.paramRefine = constants.REF_ANGLES THEN "1, 1, 1, 0, 0"
    ELSE "0, 0, 0, 1, 1"

\* ProtFrealign._defCurrentIteration: self._params
defCurrentIteration(self, imgsFn) ==
    [imgsFn |-> imgsFn,
     useInitialAngles |-> PyBool(self.useInitialAngles),
     sym |-> self.symmetry,
     sampling3DR |-> <<14, 10>>,
     ampContrast |-> <<7, 100>>,
     mode |-> mode(self),
     mode2 |-> mode2(self),
     doMagRefinement |-> TorF(self.doMagRefinement),
     doDefocusRef |-> TorF(self.doDefRefinement),
     doAstigRef |-> TorF(self.doAstigRefinement),
     doDefocusPartRef |-> TorF(self.doDefPartRefinement),
     metEwaldSphere |-> metEwaldSphere(self),
     doExtraRealSpaceSym |-> TorF(self.doExtraRealSpaceSym),
     doWienerFilter |-> TorF(self.doWienerFilter),
     doBfactor |-> TorF(self.doBfactor),
     writeMatchProj |-> TorF(self.writeMatchProjections),
     metFsc |-> metFsc(self),
     doAditionalStatisFSC |-> TorF(self.doAditionalStatisFSC),
     padFactor |-> padFactor(self),
     paramRefine |-> paramRefine(self),
     scannedPixelSize |-> 7,
     voltage |-> 200,
     sphericalAberration |-> <<226, 100>>]

\* the last call on the protocol: the parameters or the blocks returned
FrealignCall(op, args, r) == [op |-> op, args |-> args, ret |-> r]

InitFrealign ==
    /\ SetIdle
    /\ sets = [x \in {"a", "b"} |-> <<>>]
    /\ infoCall = <<>>
    /\ spider = <<>>
    /\ files = {}
    /\ protocol = NewProtFrealign
    /\ protCall = FrealignCall("init", <<>>, <<>>)

\* the settings of the BooleanParams that the user makes: all set, none
\* set, one alone set and one alone not set
BooleanChoices ==
    {[b \in BooleanParams |-> (b = x) = v] : x \in BooleanParams \cup {"none"},
                                             v \in BOOLEAN}

\* the user chooses one of the choices of an EnumParam
SetEnum(name, choice) ==
    /\ ~protocol.hasParams
    /\ protocol' = [protocol EXCEPT ![name] = choice]
    /\ UNCHANGED <<protCall, files, setVars, callVars, ptrVars, sets, infoCall, spider>>

\* the user sets the BooleanParams
SetBooleans(bs) ==
    /\ ~protocol.hasParams
    /\ protocol' = [k \in DOMAIN protocol |->
                      IF k \in BooleanParams THEN bs[k] ELSE protocol[k]]
    /\ UNCHANGED <<protCall, files, setVars, callVars, ptrVars, sets, infoCall, spider>>

\* self._defCurrentIteration(imgSet), of _defineSteps
DefCurrentIteration ==
    /\ ~protocol.hasParams
    /\ LET params == defCurrentIteration(protocol, <<"particles.sqlite">>)
       IN  /\ protocol' = [protocol EXCEPT !.hasParams = TRUE, !.params = params]
           /\ protCall' = FrealignCall("_defCurrentIteration", <<>>, params)
    /\ UNCHANGED <<files, setVars, callVars, ptrVars, sets, infoCall, spider>>

NextFrealign ==
    \/ \E name \in DOMAIN EnumChoices :
          \E choice \in 0..(EnumChoices[name] - 1) : SetEnum(name, choice)
    \/ \E bs \in BooleanChoices : SetBooleans(bs)
    \/ DefCurrentIteration

SpecFrealign == InitFrealign /\ [][NextFrealign]_vars

\* the key of self._params that holds the 'T' or 'F' of a BooleanParam
BooleanKeys ==
    [doMagRefinement |-> "doMagRefinement", doDefRefinement |-> "doDefocusRef",
     doAstigRefinement |-> "doAstigRef", doDefPartRefinement |-> "doDefocusPartRef",
     doExtraRealSpaceSym |-> "doExtraRealSpaceSym", doWienerFilter |-> "doWienerFilter",
     doBfactor |-> "doBfactor", writeMatchProjections |-> "writeMatchProj",
     doAditionalStatisFSC |-> "doAditionalStatisFSC",
     useInitialAngles |-> "useInitialAngles"]

\* the values of the help of the form, in the order of the choices
EnumsTranslated ==
    LET p == protocol.params
    IN  /\ p.mode = <<0, 1, 2, 3, 4>>[protocol.mode + 1]
        /\ p.mode2 = <<0 - 3, 0 - 4>>[protocol.Firstmode + 1]
        /\ p.metEwaldSphere = <<0, 1, 2, 0 - 1, 0 - 2>>[protocol.methodEwaldSphere + 1]
        /\ p.metFsc = <<0, 1, 2, 3>>[protocol.methodCalcFsc + 1]
        /\ p.padFactor = <<1, 2, 4>>[protocol.paddingFactor + 1]
        /\ p.paramRefine = <<"1, 1, 1, 1, 1", "1, 1, 1, 0, 0",
                             "0, 0, 0, 1, 1">>[protocol.paramRefine + 1]

BooleansTranslated(options) ==
    \A b \in options :
        protocol.params[BooleanKeys[b]] = IF protocol[b] THEN "T" ELSE "F"

\* C13: _defCurrentIteration translates the choice of every EnumParam to the
\* value of the help, for every combination of choices, and every
\* BooleanParam but useInitialAngles to 'T' when set and 'F' when not;
\* useInitialAngles is kept as Python's True or False.
C13_Translation ==
    protocol.cls = "ProtFrealign" /\ protocol.hasParams =>
        /\ EnumsTranslated
        /\ BooleansTranslated(BooleanParams \ {"useInitialAngles"})
        /\ protocol.params.useInitialAngles =
              IF protocol.useInitialAngles THEN "True" ELSE "False"

\* C13 as stated: every BooleanParam is translated to 'T' or 'F'
C13_Original ==
    protocol.cls = "ProtFrealign" /\ protocol.hasParams =>
        EnumsTranslated /\ BooleansTranslated(BooleanParams)

\* C13's case: the last choices of the mode and of the padding, the
\* reversed simple Ewald correction and the Wiener filter alone were set
C13_Witness ==
    /\ protocol.cls = "ProtFrealign" /\ protocol.hasParams
    /\ protocol.mode = 4 /\ protocol.Firstmode = 1
    /\ protocol.methodEwaldSphere = 3
    /\ protocol.doWienerFilter /\ ~protocol.writeMatchProjections
    /\ protocol.params.metEwaldSphere = 0 - 1
    /\ protocol.params.mode2 = 0 - 4
    /\ protocol.params.doWienerFilter = "T"
    /\ protocol.params.writeMatchProj = "F"

----------------------------------------------------------------------------
(* ProtCTFMicrographs of pwem/protocol.py and the execution of its steps.  *)
(* A step is a function name, its arguments, the ids of the steps it waits *)
(* for and a status; the id of a step is its position in the list.  The    *)
(* executor starts a waiting step when every prerequisite has finished,    *)
(* on one of numberOfThreads threads.                                      *)

MaxMics == 3

\* form.addParallelSection(threads=2, mpi=1)
numberOfThreads == 2

\* the file of the k-th micrograph of the input set and the directory of
\* its results, self._getExtraPath(removeBaseExt(micFn))
MicFn(k) == <<"mic", k, ".mrc">>
MicDir(k) == <<"extra", "mic", k>>

\* ProtCTFMicrographs._iterMicrographs: (micFn, micDir, mic) of each item
iterMicrographs(inputMics) ==
    [k \in DOMAIN inputMics.rows |-> <<MicFn(inputMics.rows[k].id),
                                       MicDir(inputMics.rows[k].id), inputMics.rows[k]>>]

Step(funcName, args, prerequisites) ==
    [funcName |-> funcName, args |-> args, prerequisites |-> prerequisites,
     status |-> "waiting"]

\* self._insertFunctionStep(funcName, *args, prerequisites=...): the steps
\* after it and the id of the new step
insertFunctionStep(steps, funcName, args, prerequisites) ==
    [steps |-> Append(steps, Step(funcName, args, prerequisites)),
     stepId |-> Len(steps) + 1]

\* the loop of _defineSteps over the micrographs: the steps and deps
RECURSIVE insertEstimateSteps(_, _)
insertEstimateSteps(st, mics) ==
    IF mics = <<>> THEN st
    ELSE LET ins == insertFunctionStep(st.steps, "_estimateCTF",
                                       <<Head(mics)[1], Head(mics)[2]>>, {})
         IN  insertEstimateSteps([steps |-> ins.steps,
                                  deps |-> Append(st.deps, ins.stepId)], Tail(mics))

\* the ids of a list
Range(s) == {s[i] : i \in DOMAIN s}

\* self._params of ProtCTFMicrographs._defineSteps
ctfParams(self) ==
    [voltage |-> self.inputMics.acquisition.voltage,
     sphericalAberration |-> self.inputMics.acquisition.sphericalAberration,
     magnification |-> self.inputMics.acquisition.magnification,
     samplingRate |-> self.inputMics.samplingRate,
     scannedPixelSize |-> self.inputMics.scannedPixelSize,
     windowSize |-> self.windowSize,
     ampContrast |-> self.inputMics.acquisition.amplitudeContrast,
     lowRes |-> self.lowRes,
     highRes |-> self.highRes,
     minDefocus |-> RatMul(self.minDefocus, TenTo4),
     maxDefocus |-> RatMul(self.maxDefocus, TenTo4)]

\* _defineSteps whose last step waits for no step
defineStepsNoDeps(self) ==
    LET st == insertEstimateSteps([steps |-> self.steps, deps |-> <<>>],
                                  iterMicrographs(self.inputMics))
    IN  [self EXCEPT !.params = ctfParams(self),
                     !.steps = insertFunctionStep(st.steps, "createOutput", <<>>, {}).steps]

\* ProtCTFMicrographs._defineSteps
defineSteps(self) ==
    LET st == insertEstimateSteps([steps |-> self.steps, deps |-> <<>>],
                                  iterMicrographs(self.inputMics))
    IN  [self EXCEPT !.params = ctfParams(self),
                     !.steps = insertFunctionStep(st.steps, "createOutput", <<>>,
                                                  Range(st.deps)).steps]

\* ProtCTFMicrographs.__init__ and the defaults of _defineParams, with the
\* input set of n micrographs
NewProtCTFMicrographs(n) ==
    [cls |-> "ProtCTFMicrographs", stepsExecutionMode |-> "STEPS_PARALLEL",
     inputMics |-> setSamplingRate(NewSetOfImages("SetOfMicrographs", "mics.sqlite", n),
                                   <<7, 2>>),
     lowRes |-> <<5, 100>>, highRes |-> <<35, 100>>,
     minDefocus |-> <<1, 2>>, maxDefocus |-> <<10, 1>>, windowSize |-> 256,
     params |-> <<>>, steps |-> <<>>]

InitCTF ==
    /\ SetIdle
    /\ sets = [x \in {"a", "b"} |-> <<>>]
    /\ infoCall = <<>>
    /\ spider = <<>>
    /\ files = {}
    /\ \E n \in 0..MaxMics : protocol = NewProtCTFMicrographs(n)
    /\ protCall = FrealignCall("init", <<>>, <<>>)

ctfIdle == <<files, setVars, callVars, ptrVars, sets, infoCall, spider>>

DefineSteps ==
    /\ protCall.op = "init"
    /\ protocol' = defineSteps(protocol)
    /\ protCall' = FrealignCall("_defineSteps", <<>>, <<>>)
    /\ UNCHANGED ctfIdle

Running == {i \in DOMAIN protocol.steps : protocol.steps[i].status = "running"}
FailedSteps == {i \in DOMAIN protocol.steps : protocol.steps[i].status = "failed"}

\* the executor starts a step whose prerequisites have all finished, when a
\* thread is free and no step has failed
StartStep(i) ==
    /\ protCall.op # "init"
    /\ i \in DOMAIN protocol.steps
    /\ protocol.steps[i].status = "waiting"
    /\ \A j \in protocol.steps[i].prerequisites : protocol.steps[j].status = "finished"
    /\ Cardinality(Running) < numberOfThreads
    /\ FailedSteps = {}
    /\ protocol' = [protocol EXCEPT !.steps[i].status = "running"]
    /\ protCall' = FrealignCall("start", <<i>>, <<>>)
    /\ UNCHANGED ctfIdle

\* a running step ends, finished or failed
EndStep(i, status) ==
    /\ i \in DOMAIN protocol.steps
    /\ protocol.steps[i].status = "running"
    /\ protocol' = [protocol EXCEPT !.steps[i].status = status]
    /\ protCall' = FrealignCall("end", <<i>>, <<>>)
    /\ UNCHANGED ctfIdle

NextCTF ==
    \/ DefineSteps
    \/ \E i \in 1..(MaxMics + 1) : StartStep(i)
    \/ \E i \in 1..(MaxMics + 1) : EndStep(i, "finished")
    \/ \E i \in 1..(MaxMics + 1) : EndStep(i, "failed")

SpecCTF == InitCTF /\ [][NextCTF]_vars

\* C14: _defineSteps inserts one _estimateCTF step for each input
\* micrograph, with no prerequisites, and then one createOutput step whose
\* prerequisites are the ids of all of them; an estimation step can start
\* whatever the state of the other steps, when a thread is free; and
\* createOutput has not started unless every estimation step has finished,
\* so that no step runs or starts once it has.
C14_Steps ==
    protocol.cls = "ProtCTFMicrographs" /\ protCall.op # "init" =>
        LET n == Len(protocol.inputMics.rows)
            steps == protocol.steps
        IN  /\ Len(steps) = n + 1
            /\ \A k \in 1..n :
                  /\ steps[k].funcName = "_estimateCTF"
                  /\ steps[k].prerequisites = {}
                  /\ steps[k].args = <<MicFn(k), MicDir(k)>>
                  /\ steps[k].status = "waiting" /\ Cardinality(Running) < numberOfThreads
                       /\ FailedSteps = {} => ENABLED StartStep(k)
            /\ steps[n + 1].funcName = "createOutput"
            /\ steps[n + 1].prerequisites = 1..n
            /\ steps[n + 1].status # "waiting" =>
                  \A k \in 1..n : steps[k].status = "finished"

\* C14's case: the estimation steps of three micrographs have finished,
\* the first of them last, and createOutput runs
C14_Witness ==
    /\ protocol.cls = "ProtCTFMicrographs"
    /\ Len(protocol.steps) = 4
    /\ \A k \in 1..3 : protocol.steps[k].status = "finished"
    /\ protocol.steps[4].status = "running"
    /\ protCall.op = "start"

----------------------------------------------------------------------------
(* ProtFrealign._particlesPerBlock: numberOfBlocks is the number of        *)
(* threads of the protocol and numberOfParticles the size of the input set *)

MaxBlocks == 5
MaxParticles == 20

ZeroDivisionErrorExc == "ZeroDivisionError: integer division or modulo by zero"

\* the loop over enumerate(blockParticles), from the index i (from 0)
RECURSIVE addRest(_, _, _)
addRest(blockParticles, i, restBlock) ==
    IF i >= Len(blockParticles) THEN blockParticles
    ELSE addRest(IF i < restBlock
                 THEN [blockParticles EXCEPT ![i + 1] = @ + 1]
                 ELSE blockParticles,
                 i + 1, restBlock)

\* _particlesPerBlock that leaves the rest out
particlesPerBlockNoRest(numberOfBlocks, numberOfParticles) ==
    IF numberOfBlocks = 0 THEN [exc |-> ZeroDivisionErrorExc, blocks |-> <<>>]
    ELSE [exc |-> NoExc,
          blocks |-> [i \in 1..numberOfBlocks |-> numberOfParticles \div numberOfBlocks]]

\* ProtFrealign._particlesPerBlock: the list returned, or the exception
particlesPerBlock(numberOfBlocks, numberOfParticles) ==
    IF numberOfBlocks = 0 THEN [exc |-> ZeroDivisionErrorExc, blocks |-> <<>>]
    ELSE LET restBlock == numberOfParticles % numberOfBlocks
             colBlock == numberOfParticles \div numberOfBlocks
             blockParticles == [i \in 1..numberOfBlocks |-> colBlock]
         IN  [exc |-> NoExc, blocks |-> addRest(blockParticles, 0, restBlock)]

\* blockParticles = self._particlesPerBlock(numberOfBlocks, imgSet.getSize())
ParticlesPerBlock(numberOfBlocks, numberOfParticles) ==
    /\ protCall' = FrealignCall("_particlesPerBlock",
                                <<numberOfBlocks, numberOfParticles>>,
                                particlesPerBlock(numberOfBlocks, numberOfParticles))
    /\ UNCHANGED <<protocol, files, setVars, callVars, ptrVars, sets, infoCall, spider>>

NextBlocks ==
    \E B \in 0..MaxBlocks, N \in 0..MaxParticles : ParticlesPerBlock(B, N)

SpecBlocks == InitFrealign /\ [][NextBlocks]_vars

RECURSIVE SumOf(_)
SumOf(s) == IF s = <<>> THEN 0 ELSE Head(s) + SumOf(Tail(s))

\* C16: for B >= 1 blocks and N >= 0 particles _particlesPerBlock returns a
\* list of B numbers, none negative, whose sum is N; two of them differ by
\* at most 1, and each of the first N mod B is one more than each of the
\* others.
C16_Blocks ==
    protCall.op = "_particlesPerBlock" /\ protCall.args[1] >= 1 /\ protCall.args[2] >= 0 =>
        LET B == protCall.args[1]
            N == protCall.args[2]
            blocks == protCall.ret.blocks
        IN  /\ protCall.ret.exc = NoExc
            /\ Len(blocks) = B
            /\ \A i \in 1..B : blocks[i] \in Nat
            /\ SumOf(blocks) = N
            /\ \A i, j \in 1..B : blocks[i] - blocks[j] <= 1
            /\ \A i, j \in 1..B : i <= N % B /\ j > N % B => blocks[i] = blocks[j] + 1

\* C16's case: 20 particles in 3 blocks, the first two of 7 and one of 6
C16_Witness ==
    /\ protCall.op = "_particlesPerBlock"
    /\ protCall.args = <<3, 20>>
    /\ protCall.ret.blocks = <<7, 7, 6>>

Init == InitSet
Next == NextSet
Spec == Init /\ [][Next]_vars

====
